---- MODULE Spec2Model ----
(***************************************************************************)
(* Duka FastAPI (src/main.py, src/models.py, src/jsonmap.py): the four     *)
(* tables, the SQLAlchemy Session the handlers work on, and the handlers,  *)
(* one step per Session call.                                              *)
(*                                                                         *)
(* models.py binds SessionLocal to one Session object, not to a session    *)
(* factory, and get_db hands out what SessionLocal() gives. No per-request *)
(* session exists anywhere in the sources: the handlers are modelled on    *)
(* that one module-level Session (pending objects, persistent objects and  *)
(* the failed-flush state are shared), which get_db closes after each      *)
(* request. Requests run in the framework's thread pool, so the Session    *)
(* calls of different requests interleave; each Session call is one        *)
(* atomic step. A flush that fails does not advance the id sequences.      *)
(*                                                                         *)
(* myjwt (get_current_user, authenticate_user, create_access_token,        *)
(* get_password_hash) is not among the sources and is modelled from the    *)
(* specification's Credential Service.                                     *)
(***************************************************************************)
EXTENDS Integers, Sequences, FiniteSets, Bags, TLC

VARIABLES users, products, sales, purchases, seq,
          new, persistent, failed,
          now, issued, req

vars == <<users, products, sales, purchases, seq, new, persistent, failed, now, issued, req>>

tables == <<users, products, sales, purchases, seq>>
session == <<new, persistent, failed>>

----------------------------------------------------------------------------
(* Bounds and input sets *)

MaxProducts == 2
MaxSales == 2
MaxPurchases == 1

Reqs == {1, 2}
Emails == {"e1", "e2"}
Fullnames == {"F"}
Passwords == {"pw"}
LoginPasswords == {"pw", "bad"}
Names == {"soap"}
BuyingPrices == {1}
SellingPrices == {10}
Quantities == {0, 3}
ProductIds == 1..MaxProducts
Times == {0, 40}

ACCESS_TOKEN_EXPIRE_MINUTES == 30

NoToken == [sub |-> "", exp |-> 0, sig |-> "none"]
BadToken == [sub |-> "e1", exp |-> 1000, sig |-> "bad"]
NoBody == <<>>

----------------------------------------------------------------------------
(* Handlers by kind *)

CreateOps == {"create_product", "create_sale", "create_purchase"}
QueryOps == {"get_products", "get_sales", "get_purchases",
             "sales_per_product", "stock_per_product"}
ProtectedOps == CreateOps \cup QueryOps

Idle == [op |-> "none", pc |-> "idle", tok |-> NoToken, email |-> "", fullname |-> "",
         password |-> "", name |-> "", buying_price |-> 0, selling_price |-> 0,
         product_id |-> 0, quantity |-> 0, status |-> 0, oid |-> 0, body |-> NoBody]

----------------------------------------------------------------------------
(* Pure helpers *)

(* The total of the v fields of a set of [k, v] records (k keeps equal values apart). *)
RECURSIVE SumV(_)
SumV(S) ==
    IF S = {} THEN 0
    ELSE LET x == CHOOSE y \in S : TRUE IN x.v + SumV(S \ {x})

(* A nullable SQL value is the set of its value: {} is NULL. *)
The(x) == CHOOSE v \in x : TRUE

(* SQL sum(): NULL over no input row, else the total. *)
SqlSum(S) == IF S = {} THEN {} ELSE {SumV(S)}

(* SQL coalesce(x, d) *)
coalesce(x, d) == IF x = {} THEN d ELSE The(x)

Ids(T) == {x.id : x \in T}

(* The bag of the values g[t], t in the set J: one copy per element of J. *)
Project(J, g) ==
    LET R == {g[t] : t \in J}
    IN [row \in R |-> Cardinality({t \in J : g[t] = row})]

----------------------------------------------------------------------------
(* Credential service (myjwt) *)

get_password_hash(plaintext) == <<"hash", plaintext>>

create_access_token(sub, expires_delta) ==
    [sub |-> sub, exp |-> now + expires_delta, sig |-> "ok"]

(* get_current_user: the bearer token is present, signed, not expired and its
   subject is a registered email. *)
TokenValid(tok) ==
    /\ tok.sig = "ok"
    /\ now <= tok.exp
    /\ \E u \in users : u.email = tok.sub

authenticate_user(email, password) ==
    \E u \in users : u.email = email /\ u.password = get_password_hash(password)

(* The tokens a client can present: none, a forged one, or one it was issued. *)
Presentable == {NoToken, BadToken} \cup issued

----------------------------------------------------------------------------
(* Dashboard queries *)

(* Mutant: an inner join, which drops the products without a sale. *)
ProductInnerJoinSale ==
    {j \in products \X {{s} : s \in sales} : j[1].id = The(j[2]).product_id}

(* Product LEFT OUTER JOIN Sale ON Product.id = Sale.product_id: a product
   with no sale is kept once, with a NULL sale. *)
ProductOuterJoinSale ==
    {j \in products \X {{s} : s \in sales} : j[1].id = The(j[2]).product_id}
      \cup {<<p, {}>> : p \in {q \in products : \A s \in sales : s.product_id # q.id}}

(* sales_per_product: the join grouped by Product.id, one row per group. *)
SalesPerProductQuery ==
    LET J == ProductOuterJoinSale
        Group(pid) == {j \in J : j[1].id = pid}
        Matched(pid) == {j \in Group(pid) : j[2] # {}}
        Row(pid) ==
            LET p == (CHOOSE j \in Group(pid) : TRUE)[1]
            IN [product_id |-> pid,
                product_name |-> p.name,
                total_quantity_sold |->
                    coalesce(SqlSum({[k |-> The(j[2]).id, v |-> The(j[2]).quantity]
                                       : j \in Matched(pid)}), 0),
                total_sales_amount |->
                    coalesce(SqlSum({[k |-> The(j[2]).id,
                                      v |-> The(j[2]).quantity * j[1].selling_price]
                                       : j \in Matched(pid)}), 0)]
    IN SetToBag({Row(pid) : pid \in {j[1].id : j \in J}})

(* SELECT product_id, sum(quantity) FROM t GROUP BY product_id *)
SumByProduct(T) ==
    {[product_id |-> pid,
      total |-> SqlSum({[k |-> x.id, v |-> x.quantity] : x \in {y \in T : y.product_id = pid}})]
       : pid \in {x.product_id : x \in T}}

(* Mutant: an inner join, which drops the products without a row in sub. *)
InnerJoinSub(J, sub) ==
    {x \in J \X {{g} : g \in sub} : x[1][1].id = The(x[2]).product_id}

(* Product LEFT OUTER JOIN sub ON Product.id = sub.product_id, for a joined
   set J of tuples whose first component is the product. *)
OuterJoinSub(J, sub) ==
    {x \in J \X {{g} : g \in sub} : x[1][1].id = The(x[2]).product_id}
      \cup {<<j, {}>> : j \in {i \in J : \A g \in sub : g.product_id # i[1].id}}

(* stock_per_product: products outer-joined to the two grouped subqueries. *)
StockPerProductQuery ==
    LET sales_sub == SumByProduct(sales)
        purchase_sub == SumByProduct(purchases)
        J1 == OuterJoinSub({<<p>> : p \in products}, sales_sub)
        J2 == OuterJoinSub({<<j[1][1], j[2]>> : j \in J1}, purchase_sub)
        Col(g) == IF g = {} THEN {} ELSE The(g).total
        row == [j \in J2 |->
                  [product_id |-> j[1][1].id,
                   product_name |-> j[1][1].name,
                   remaining_stock |-> coalesce(Col(j[2]), 0) - coalesce(Col(j[1][2]), 0)]]
    IN Project(J2, row)

----------------------------------------------------------------------------
(* The ORM objects of the requests and the unit of work *)

Range(s) == {s[i] : i \in 1..Len(s)}

Table(op) ==
    CASE op = "register_user" -> "users"
      [] op = "create_product" -> "products"
      [] op = "create_sale" -> "sales"
      [] op = "create_purchase" -> "purchases"
      [] OTHER -> "none"

(* The requests whose pending object goes to table k, in the order of db.add. *)
NewOf(k) == SelectSeq(new, LAMBDA r : Table(req[r].op) = k)

IndexIn(s, r) == CHOOSE i \in 1..Len(s) : s[i] = r

(* The primary key the flush gives the pending object of request r. *)
AssignedId(r) ==
    LET k == Table(req[r].op) IN seq[k] + IndexIn(NewOf(k), r) - 1

UserRow(r) ==
    [id |-> AssignedId(r), email |-> req[r].email, fullname |-> req[r].fullname,
     password |-> get_password_hash(req[r].password)]

ProductRow(r) ==
    [id |-> AssignedId(r), name |-> req[r].name,
     buying_price |-> req[r].buying_price, selling_price |-> req[r].selling_price]

(* Mutant: the two integer columns swapped. *)
LedgerRowSwapped(r) ==
    [id |-> AssignedId(r), product_id |-> req[r].quantity,
     quantity |-> req[r].product_id, created_at |-> now]

LedgerRow(r) ==
    [id |-> AssignedId(r), product_id |-> req[r].product_id,
     quantity |-> req[r].quantity, created_at |-> now]

(* users.email is unique. *)
UniqueEmailOK ==
    LET N == Range(NewOf("users"))
    IN /\ \A r \in N : \A u \in users : u.email # req[r].email
       /\ \A r1, r2 \in N : r1 # r2 => req[r1].email # req[r2].email

(* sales.product_id and purchases.product_id reference products.id; the
   products of the same flush are inserted first. *)
ForeignKeyOK ==
    LET P == Ids(products) \cup {AssignedId(r) : r \in Range(NewOf("products"))}
    IN \A r \in Range(NewOf("sales")) \cup Range(NewOf("purchases")) : req[r].product_id \in P

(* Mutant: a sale is refused when the stock on hand does not cover it. *)
FlushOKStockChecked ==
    /\ UniqueEmailOK
    /\ ForeignKeyOK
    /\ \A r \in Range(NewOf("sales")) :
          LET On(T) == SumV({[k |-> x.id, v |-> x.quantity]
                               : x \in {y \in T : y.product_id = req[r].product_id}})
          IN On(purchases) - On(sales) >= req[r].quantity

FlushOK == UniqueEmailOK /\ ForeignKeyOK

(* The request r after its handler raised or returned. *)
Finished(r, status, body) == [req[r] EXCEPT !.pc = "close", !.status = status, !.body = body]

----------------------------------------------------------------------------
(* Session calls, each on the one module-level Session *)

(* get_db: the session a request works on is the shared one; closing it
   expunges every object and ends the transaction, whoever began it. *)
db_close(r) ==
    /\ req[r].pc = "close"
    /\ new' = <<>>
    /\ persistent' = {}
    /\ failed' = FALSE
    /\ req' = [req EXCEPT ![r] = Idle]
    /\ UNCHANGED <<tables, now, issued>>

db_add(r) ==
    /\ req[r].pc = "add"
    /\ new' = Append(new, r)
    /\ req' = [req EXCEPT ![r].pc = "commit"]
    /\ UNCHANGED <<tables, persistent, failed, now, issued>>

(* commit() flushes every pending object of the session in one transaction. *)
db_commit(r) ==
    /\ req[r].pc = "commit"
    /\ IF failed
       THEN /\ req' = [req EXCEPT ![r] = Finished(r, 500, NoBody)]
            /\ UNCHANGED <<tables, session, now, issued>>
       ELSE IF FlushOK
       THEN /\ users' = users \cup {UserRow(q) : q \in Range(NewOf("users"))}
            /\ products' = products \cup {ProductRow(q) : q \in Range(NewOf("products"))}
            /\ sales' = sales \cup {LedgerRow(q) : q \in Range(NewOf("sales"))}
            /\ purchases' = purchases \cup {LedgerRow(q) : q \in Range(NewOf("purchases"))}
            /\ seq' = [k \in DOMAIN seq |-> seq[k] + Len(NewOf(k))]
            /\ persistent' = persistent \cup Range(new)
            /\ new' = <<>>
            /\ req' = [q \in Reqs |->
                         LET a == IF q \in Range(new)
                                  THEN [req[q] EXCEPT !.oid = AssignedId(q)] ELSE req[q]
                         IN IF q = r THEN [a EXCEPT !.pc = "refresh"] ELSE a]
            /\ UNCHANGED <<failed, now, issued>>
       ELSE /\ new' = <<>>
            /\ failed' = TRUE
            /\ req' = [req EXCEPT ![r] = Finished(r, 500, NoBody)]
            /\ UNCHANGED <<tables, persistent, now, issued>>

(* The row refresh() loads for the object of request r, as a set (none: {}). *)
RowOf(r) ==
    LET T == CASE Table(req[r].op) = "users" -> users
               [] Table(req[r].op) = "products" -> products
               [] Table(req[r].op) = "sales" -> sales
               [] OTHER -> purchases
    IN {x \in T : x.id = req[r].oid}

(* refresh() needs the object persistent in the session and its row. *)
RefreshOK(r) == ~failed /\ r \in persistent /\ RowOf(r) # {}

db_refresh(r) ==
    /\ req[r].pc = "refresh"
    /\ req' = [req EXCEPT ![r] = IF RefreshOK(r) THEN Finished(r, 200, The(RowOf(r)))
                                 ELSE Finished(r, 500, NoBody)]
    /\ UNCHANGED <<tables, session, now, issued>>

(* db.execute(select ...) / db.query(...).all() of a read handler. *)
db_query(r, result) ==
    /\ req[r].pc = "exec"
    /\ req' = [req EXCEPT ![r] = IF failed THEN Finished(r, 500, NoBody)
                                 ELSE Finished(r, 200, result)]
    /\ UNCHANGED <<tables, session, now, issued>>

----------------------------------------------------------------------------
(* Request entry *)

(* Mutant: get_sales declared without the dependency. *)
RequiresTokenButGetSales(op) == op \in ProtectedOps \ {"get_sales"}

(* The handlers declared with Depends(get_current_user). *)
RequiresToken(op) == op \in ProtectedOps

(* Request bodies as pydantic accepts them: integer fields, no range. *)
SalePostMap(product_id, quantity) == product_id \in Int /\ quantity \in Int
PurchasePostMap(product_id, quantity) == product_id \in Int /\ quantity \in Int

(* Rows inserted so far into table k, and the create requests still to
   commit: the caps on the tables bound their total. *)
Inserted(k) == seq[k] - 1

InFlight(op) == Cardinality({q \in Reqs : req[q].op = op /\ req[q].pc \in {"add", "commit"}})

(* Requests are anonymous: a new one takes the lowest free slot. *)
Free(r) == req[r].pc = "idle" /\ \A q \in Reqs : q < r => req[q].pc # "idle"

(* A request enters slot r: its dependencies are resolved (the token first),
   then it stands at the first step of the handler body. *)
Call(r, op, tok, first, args) ==
    /\ Free(r)
    /\ req' = [req EXCEPT ![r] =
                 IF RequiresToken(op) /\ ~TokenValid(tok)
                 THEN [args EXCEPT !.op = op, !.tok = tok, !.pc = "done", !.status = 401]
                 ELSE [args EXCEPT !.op = op, !.tok = tok, !.pc = first]]
    /\ UNCHANGED <<tables, session, now, issued>>

----------------------------------------------------------------------------
(* Handlers *)

read_root(r) ==
    /\ Free(r)
    /\ req' = [req EXCEPT ![r] = [Idle EXCEPT !.op = "read_root", !.pc = "done",
                                               !.status = 200, !.body = <<"Version 1.0">>]]
    /\ UNCHANGED <<tables, session, now, issued>>

register_user(r) ==
    \/ \E e \in Emails, f \in Fullnames, pw \in Passwords :
          Call(r, "register_user", NoToken, "exec",
               [Idle EXCEPT !.email = e, !.fullname = f, !.password = pw])
    \/ /\ req[r].op = "register_user"
       /\ req[r].pc = "exec"
       /\ req' = [req EXCEPT ![r] =
                    IF failed THEN Finished(r, 500, NoBody)
                    ELSE IF \E u \in users : u.email = req[r].email
                    THEN Finished(r, 400, NoBody)
                    ELSE [req[r] EXCEPT !.pc = "add"]]
       /\ UNCHANGED <<tables, session, now, issued>>
    \/ req[r].op = "register_user" /\ db_add(r)
    \/ req[r].op = "register_user" /\ db_commit(r)
    \/ /\ req[r].op = "register_user"
       /\ req[r].pc = "refresh"
       /\ LET access_token == create_access_token(req[r].email, ACCESS_TOKEN_EXPIRE_MINUTES)
          IN IF RefreshOK(r)
             THEN /\ req' = [req EXCEPT ![r] = Finished(r, 200, access_token)]
                  /\ issued' = issued \cup {access_token}
             ELSE /\ req' = [req EXCEPT ![r] = Finished(r, 500, NoBody)]
                  /\ UNCHANGED issued
       /\ UNCHANGED <<tables, session, now>>

login_user(r) ==
    /\ Free(r)
    /\ \E e \in Emails, pw \in LoginPasswords :
          LET access_token == create_access_token(e, ACCESS_TOKEN_EXPIRE_MINUTES)
              call == [Idle EXCEPT !.op = "login_user", !.pc = "done",
                                   !.email = e, !.password = pw]
          IN IF authenticate_user(e, pw)
             THEN /\ req' = [req EXCEPT ![r] = [call EXCEPT !.status = 200, !.body = access_token]]
                  /\ issued' = issued \cup {access_token}
             ELSE /\ req' = [req EXCEPT ![r] = [call EXCEPT !.status = 401]]
                  /\ UNCHANGED issued
    /\ UNCHANGED <<tables, session, now>>

get_products(r) ==
    \/ \E tok \in Presentable : Call(r, "get_products", tok, "exec", Idle)
    \/ req[r].op = "get_products" /\ db_query(r, products)

create_product(r) ==
    \/ /\ Inserted("products") + InFlight("create_product") < MaxProducts
       /\ \E tok \in Presentable, n \in Names, bp \in BuyingPrices, sp \in SellingPrices :
             Call(r, "create_product", tok, "add",
                  [Idle EXCEPT !.name = n, !.buying_price = bp, !.selling_price = sp])
    \/ req[r].op = "create_product" /\ db_add(r)
    \/ req[r].op = "create_product" /\ db_commit(r)
    \/ req[r].op = "create_product" /\ db_refresh(r)

get_sales(r) ==
    \/ \E tok \in Presentable : Call(r, "get_sales", tok, "exec", Idle)
    \/ req[r].op = "get_sales" /\ db_query(r, sales)

create_sale(r) ==
    \/ /\ Inserted("sales") + InFlight("create_sale") < MaxSales
       /\ \E tok \in Presentable, pid \in ProductIds, q \in Quantities :
             /\ SalePostMap(pid, q)
             /\ Call(r, "create_sale", tok, "add",
                     [Idle EXCEPT !.product_id = pid, !.quantity = q])
    \/ req[r].op = "create_sale" /\ db_add(r)
    \/ req[r].op = "create_sale" /\ db_commit(r)
    \/ req[r].op = "create_sale" /\ db_refresh(r)

get_purchases(r) ==
    \/ \E tok \in Presentable : Call(r, "get_purchases", tok, "exec", Idle)
    \/ req[r].op = "get_purchases" /\ db_query(r, purchases)

create_purchase(r) ==
    \/ /\ Inserted("purchases") + InFlight("create_purchase") < MaxPurchases
       /\ \E tok \in Presentable, pid \in ProductIds, q \in Quantities :
             /\ PurchasePostMap(pid, q)
             /\ Call(r, "create_purchase", tok, "add",
                     [Idle EXCEPT !.product_id = pid, !.quantity = q])
    \/ req[r].op = "create_purchase" /\ db_add(r)
    \/ req[r].op = "create_purchase" /\ db_commit(r)
    \/ req[r].op = "create_purchase" /\ db_refresh(r)

sales_per_product(r) ==
    \/ \E tok \in Presentable : Call(r, "sales_per_product", tok, "exec", Idle)
    \/ req[r].op = "sales_per_product" /\ db_query(r, SalesPerProductQuery)

stock_per_product(r) ==
    \/ \E tok \in Presentable : Call(r, "stock_per_product", tok, "exec", Idle)
    \/ req[r].op = "stock_per_product" /\ db_query(r, StockPerProductQuery)

(* get_db's finally: the request closes the session it was handed. *)
get_db(r) == db_close(r)

(* The response of a request that never reached get_db is sent. *)
Respond(r) ==
    /\ req[r].pc = "done"
    /\ req' = [req EXCEPT ![r] = Idle]
    /\ UNCHANGED <<tables, session, now, issued>>

(* The clock moves to the next observed instant. *)
Tick ==
    /\ \E t \in Times : t > now
    /\ now' = CHOOSE t \in Times : t > now /\ \A u \in Times : u > now => t <= u
    /\ UNCHANGED <<tables, session, issued, req>>

(* Mutant: the product row goes, its sales and purchases stay. *)
delete_product_only ==
    \E p \in products :
        /\ products' = products \ {p}
        /\ UNCHANGED <<users, sales, purchases, seq, session, now, issued, req>>

(* session.delete(product): Product.sales and Product.purchases cascade
   "all, delete-orphan", so the rows of the product go with it. *)
delete_product ==
    \E p \in products :
        /\ products' = products \ {p}
        /\ sales' = {s \in sales : s.product_id # p.id}
        /\ purchases' = {x \in purchases : x.product_id # p.id}
        /\ UNCHANGED <<users, seq, session, now, issued, req>>

----------------------------------------------------------------------------

Init ==
    /\ users = {}
    /\ products = {}
    /\ sales = {}
    /\ purchases = {}
    /\ seq = [k \in {"users", "products", "sales", "purchases"} |-> 1]
    /\ new = <<>>
    /\ persistent = {}
    /\ failed = FALSE
    /\ now = 0
    /\ issued = {}
    /\ req = [r \in Reqs |-> Idle]

Api(r) ==
    \/ read_root(r)
    \/ register_user(r)
    \/ login_user(r)
    \/ get_products(r)
    \/ create_product(r)
    \/ get_sales(r)
    \/ create_sale(r)
    \/ get_purchases(r)
    \/ create_purchase(r)
    \/ sales_per_product(r)
    \/ stock_per_product(r)
    \/ get_db(r)
    \/ Respond(r)

(* The whole API from an empty database, one request at a time, with the clock. *)
Next == Api(1) \/ Tick

Spec == Init /\ [][Next]_vars

(* Registration and login, two requests at a time. *)
NextRegister ==
    \/ \E r \in Reqs : register_user(r)
    \/ \E r \in Reqs : login_user(r)
    \/ \E r \in Reqs : get_db(r)
    \/ \E r \in Reqs : Respond(r)
    \/ Tick

SpecRegister == Init /\ [][NextRegister]_vars

(* The state after one registration at time 0. *)
InitLedger ==
    /\ users = {[id |-> 1, email |-> "e1", fullname |-> "F",
                 password |-> get_password_hash("pw")]}
    /\ products = {}
    /\ sales = {}
    /\ purchases = {}
    /\ seq = [k \in {"users", "products", "sales", "purchases"} |->
                IF k = "users" THEN 2 ELSE 1]
    /\ new = <<>>
    /\ persistent = {}
    /\ failed = FALSE
    /\ now = 0
    /\ issued = {create_access_token("e1", ACCESS_TOKEN_EXPIRE_MINUTES)}
    /\ req = [r \in Reqs |-> Idle]

(* Catalog, ledger and dashboard handlers, two requests at a time. *)
NextLedger ==
    \/ \E r \in Reqs : get_products(r)
    \/ \E r \in Reqs : create_product(r)
    \/ \E r \in Reqs : get_sales(r)
    \/ \E r \in Reqs : create_sale(r)
    \/ \E r \in Reqs : get_purchases(r)
    \/ \E r \in Reqs : create_purchase(r)
    \/ \E r \in Reqs : sales_per_product(r)
    \/ \E r \in Reqs : stock_per_product(r)
    \/ \E r \in Reqs : get_db(r)
    \/ \E r \in Reqs : Respond(r)

SpecLedger == InitLedger /\ [][NextLedger]_vars

(* The create handlers with the ORM-level deletion of a product. *)
NextDelete ==
    \/ \E r \in Reqs : create_product(r)
    \/ \E r \in Reqs : create_sale(r)
    \/ \E r \in Reqs : create_purchase(r)
    \/ \E r \in Reqs : get_db(r)
    \/ \E r \in Reqs : Respond(r)
    \/ delete_product

SpecDelete == InitLedger /\ [][NextDelete]_vars

----------------------------------------------------------------------------
(* Properties *)

BodyPcs == {"exec", "add", "commit", "refresh", "close"}

(* Request r answered 200 in this step. *)
Answered(r, op) ==
    /\ req[r].op = op
    /\ req[r].pc \in {"exec", "refresh"}
    /\ req'[r].pc = "close"
    /\ req'[r].status = 200

QtyOf(T, pid) == SumV({[k |-> x.id, v |-> x.quantity] : x \in {y \in T : y.product_id = pid}})

ExpectedStockRow(p) ==
    [product_id |-> p.id, product_name |-> p.name,
     remaining_stock |-> QtyOf(purchases, p.id) - QtyOf(sales, p.id)]

ExpectedSalesRow(p) ==
    [product_id |-> p.id, product_name |-> p.name,
     total_quantity_sold |-> QtyOf(sales, p.id),
     total_sales_amount |->
        SumV({[k |-> s.id, v |-> s.quantity * p.selling_price]
                : s \in {y \in sales : y.product_id = p.id}})]

(* The bag b holds exactly the rows of S, each once. *)
ExactlyOnce(b, S) == DOMAIN b = S /\ \A row \in S : b[row] = 1

(* C1: whenever stock_per_product answers, whatever calls committed before
   and however they interleaved, its result has exactly one row per product
   of the catalog, with remaining_stock = purchased - sold (a missing sum
   counting 0), so a product without activity is there with 0. *)
C1_StockPerProduct ==
    [][\A r \in Reqs : Answered(r, "stock_per_product") =>
          ExactlyOnce(req'[r].body, {ExpectedStockRow(p) : p \in products})]_vars

C1_Witness ==
    \E r \in Reqs :
       /\ req[r].op = "stock_per_product" /\ req[r].pc = "close" /\ req[r].status = 200
       /\ Cardinality(products) = 2
       /\ \E p \in products :
             /\ \A x \in sales \cup purchases : x.product_id # p.id
             /\ ExpectedStockRow(p) \in DOMAIN req[r].body
       /\ \E row \in DOMAIN req[r].body : row.remaining_stock # 0
       /\ sales # {} /\ purchases # {}

(* C2: whenever sales_per_product answers, its result has exactly one row per
   product of the catalog (grouped by product id), with the total quantity of
   the product's sales and the total of quantity x selling_price; a product
   without sales has both totals 0. *)
C2_SalesPerProduct ==
    [][\A r \in Reqs : Answered(r, "sales_per_product") =>
          ExactlyOnce(req'[r].body, {ExpectedSalesRow(p) : p \in products})]_vars

C2_Witness ==
    \E r \in Reqs :
       /\ req[r].op = "sales_per_product" /\ req[r].pc = "close" /\ req[r].status = 200
       /\ \E row \in DOMAIN req[r].body :
             row.total_quantity_sold = 6 /\ row.total_sales_amount = 60
       /\ \E row \in DOMAIN req[r].body :
             row.total_quantity_sold = 0 /\ row.total_sales_amount = 0

(* C3: every stored sale and every stored purchase has quantity > 0. *)
C3_PositiveQuantities == \A x \in sales \cup purchases : x.quantity > 0

(* C4: a record_sale or record_purchase naming a product that is not in the
   catalog ends with the NotFound (404) outcome. *)
C4_UnknownProductNotFound ==
    \A r \in Reqs :
       (/\ req[r].op \in {"create_sale", "create_purchase"}
        /\ req[r].pc = "close"
        /\ req[r].product_id \notin Ids(products)) => req[r].status = 404

NoOrphanRows == \A x \in sales \cup purchases : x.product_id \in Ids(products)

DeleteCascades ==
    \A p \in products : p \notin products' =>
        /\ sales' = {s \in sales : s.product_id # p.id}
        /\ purchases' = {x \in purchases : x.product_id # p.id}

(* C5: in every reachable state no sale and no purchase references a product
   that is not in the catalog; a step that removes a product removes exactly
   that product's sales and purchases with it and leaves the rows of other
   products as they were. *)
C5_NoOrphans == []NoOrphanRows /\ [][DeleteCascades]_vars

C5_Witness ==
    /\ Inserted("products") = 2 /\ Cardinality(products) = 1
    /\ Inserted("sales") = 2 /\ Cardinality(sales) = 1
    /\ Inserted("purchases") = 1 /\ purchases = {}

(* C6: a register call that finds its email held by another account, also
   one that ran its existence check before the other call committed, ends
   with the Conflict (400) outcome, and no two users share an email. *)
C6_DuplicateIsConflict ==
    /\ \A r \in Reqs :
          (/\ req[r].op = "register_user"
           /\ req[r].pc = "close"
           /\ \E u \in users : u.email = req[r].email /\ u.id # req[r].oid)
          => req[r].status = 400
    /\ \A u, v \in users : u.email = v.email => u = v

LedgerStep(T, Tn) ==
    /\ T \subseteq Tn
    /\ \A x \in Tn \ T : x.id \notin Ids(T)
    /\ Cardinality(Ids(Tn)) = Cardinality(Tn)

OwnEntry(r, Tn) ==
    LET row == req'[r].body
    IN /\ row \in Tn
       /\ row.product_id = req[r].product_id
       /\ row.quantity = req[r].quantity
       /\ Cardinality({x \in Tn : x.id = row.id}) = 1
       /\ \A q \in Reqs \ {r} :
             (req'[q].op = req[r].op /\ req'[q].status = 200 /\ req'[q].pc = "close")
                => req'[q].body # row

(* C7: the ledger is append-only and a successful record_sale (or
   record_purchase) leaves exactly one entry of its own in what list_sales
   (list_purchases) returns: every stored row stays as it is, a new row has
   an id no earlier row has, and the answer of a successful call is a stored
   row with the product_id and quantity of the request and an id of its own. *)
C7_AppendOnlyLedger ==
    [][/\ LedgerStep(sales, sales')
       /\ LedgerStep(purchases, purchases')
       /\ \A r \in Reqs :
             /\ Answered(r, "create_sale") => OwnEntry(r, sales')
             /\ Answered(r, "create_purchase") => OwnEntry(r, purchases')
             /\ Answered(r, "get_sales") => req'[r].body = sales
             /\ Answered(r, "get_purchases") => req'[r].body = purchases]_vars

C7_Witness ==
    /\ \E r \in Reqs :
          /\ req[r].op = "create_sale" /\ req[r].pc = "close" /\ req[r].status = 200
          /\ req[r].quantity > 0
          /\ req[r].body \in sales
          /\ Cardinality(sales) = 2
    /\ purchases # {}

Unacceptable(tok) == tok = NoToken \/ tok.sig # "ok" \/ now > tok.exp

Gate ==
    /\ \A t \in issued' \ issued : t.exp = now + 30
    /\ \A r \in Reqs :
          /\ (req'[r].pc \in BodyPcs /\ req[r].pc \notin BodyPcs) => req[r].pc = "idle"
          /\ (/\ req[r].pc = "idle" /\ req'[r].pc # "idle"
              /\ req'[r].op \in ProtectedOps
              /\ Unacceptable(req'[r].tok))
             => /\ req'[r].pc = "done"
                /\ req'[r].status = 401
                /\ req'[r].body = NoBody
                /\ UNCHANGED <<tables, session>>

OnlyOpen(Open) ==
    \A r \in Reqs :
       (req[r].pc # "idle" /\ req[r].status # 401 /\ req[r].tok.sig # "ok")
          => req[r].op \in Open

(* C8 as stated: a protected operation whose token is missing, invalid or
   expired (more than 30 minutes after register or login issued it) is
   answered 401 with no data and changes no table, the body of a handler is
   entered only from the call that validated the token, and register and
   login are the only operations that go ahead without a token. *)
C8_OnlyRegisterLoginOpen ==
    [][Gate /\ OnlyOpen({"register_user", "login_user"})']_vars

(* C8 amended: the same gate on the protected operations, and register,
   login and the root banner (GET /) are the only operations that go ahead
   without a token. *)
C8_ProtectedBehindToken ==
    [][Gate /\ OnlyOpen({"register_user", "login_user", "read_root"})']_vars

C8_Witness ==
    \E r \in Reqs :
       /\ req[r].op \in ProtectedOps
       /\ req[r].status = 401
       /\ req[r].tok \in issued
       /\ now > req[r].tok.exp

(* C9: a call that fails persists nothing, and a commit inserts no pending
   row of another call. *)
C9_CallScopedTransaction ==
    [][\A r \in Reqs :
          /\ (req'[r].pc = "close" /\ req'[r].status # 200) =>
                \A x \in users' \cup products' \cup sales' \cup purchases' :
                    ~(x.id = req'[r].oid /\ x \in
                        (CASE Table(req'[r].op) = "users" -> users'
                           [] Table(req'[r].op) = "products" -> products'
                           [] Table(req'[r].op) = "sales" -> sales'
                           [] OTHER -> purchases'))
          /\ (req[r].pc = "commit" /\ req'[r].pc # "commit") => Range(new) \subseteq {r}]_vars

(* C10: with requests one at a time, a record_sale for a product of the
   catalog with quantity > 0 is never refused, whatever the stock, and
   stock_per_product then reports purchased - sold, negative or not. *)
C10_SaleNeverRefusedForStock ==
    [][\A r \in Reqs :
          /\ (/\ req[r].op = "create_sale"
              /\ req[r].pc \in {"commit", "refresh"}
              /\ req'[r] # req[r]
              /\ req[r].product_id \in Ids(products)
              /\ req[r].quantity > 0)
             => /\ req'[r].pc \in {"refresh", "close"}
                /\ req'[r].pc = "close" => (req'[r].status = 200 /\ req'[r].body \in sales')
                /\ req'[r].pc = "refresh" => Cardinality(sales') = Cardinality(sales) + 1
          /\ Answered(r, "stock_per_product") =>
                \A p \in products :
                   \E row \in DOMAIN req'[r].body :
                      /\ row.product_id = p.id
                      /\ row.remaining_stock = QtyOf(purchases, p.id) - QtyOf(sales, p.id)]_vars

C10_Witness ==
    \E r \in Reqs :
       /\ req[r].op = "stock_per_product" /\ req[r].pc = "close" /\ req[r].status = 200
       /\ \E row \in DOMAIN req[r].body : row.remaining_stock = -6

====
